---- MODULE Spec2Model ----
(***************************************************************************)
(* Matchmaking and signaling relay of the anonymous video chat server:     *)
(* PeerManager (registry + waiting queue), SignalingService (dispatch of   *)
(* inbound messages) and the WebSocket connection callbacks of             *)
(* registerRoutes.  Every callback runs to completion on the Node event    *)
(* loop, so each one is a single action.                                   *)
(*                                                                         *)
(* Connections are numbered 1..NumClients; assignedId[c] is the id the      *)
(* connection callback drew for connection c.  In Spec and its sub-        *)
(* specifications the ids drawn are pairwise different and connection c    *)
(* holds id c; SpecIds lets the generator return any value of its range.   *)
(* Inbound messages are taken only from a connection whose readyState is   *)
(* OPEN.                                                                   *)
(***************************************************************************)
EXTENDS Integers, Sequences, FiniteSets, TLC

\* ------------------------------------------------------------------ bounds
NumClients == 3      \* connections (client ids 1..NumClients)
MaxWarnings == 2     \* cap of the warnings counter of an activeConnections entry

Ids == 1..NumClients

\* Sample values of the opaque parts of inbound messages.  None stands for an
\* absent field.
None == "-"
Payloads == {"p1"}                \* sdp / candidate / message text
ChatTexts == Payloads \cup {"meet up"} \* message texts, one of them suspicious
SenderTimes == {None, "t-client"} \* a timestamp field the sender may add
ServerTimes == {"t-server"}       \* new Date().toISOString()

\* partnerId?: string  -- 0 stands for undefined
NoId == 0

RelayTypes == {"offer", "answer", "ice-candidate"}

VARIABLES
    readyState,     \* [Ids -> state of the connection's WebSocket]
    assignedId,     \* [Ids -> clientId drawn by the connection callback, NoId before]
    clients,        \* PeerManager.clients : registered id -> Client record
    waitingQueue,   \* PeerManager.waitingQueue
    outbox,         \* frames handed to ws.send by the last callback, in order
    last,           \* which callback ran last, and for which connection
    reportedUsers,      \* ChildSafetyMonitor.reportedUsers
    activeConnections,  \* ChildSafetyMonitor.activeConnections : userId -> entry
    reportCalls,        \* the users reportUser has been called for, so far
    monitorLast         \* the last ChildSafetyMonitor call and what it returned

serverVars == <<readyState, assignedId, clients, waitingQueue, outbox, last>>

monitorVars == <<reportedUsers, activeConnections, reportCalls, monitorLast>>

vars == <<readyState, assignedId, clients, waitingQueue, outbox, last,
          reportedUsers, activeConnections, reportCalls, monitorLast>>

\* readyState values.  UNCONNECTED: the connection has not been accepted yet;
\* CLOSING: the socket is no longer OPEN but its 'close' event has not been
\* handled; CLOSED: the 'close' callback has run.
ReadyStates == {"UNCONNECTED", "OPEN", "CLOSING", "CLOSED"}

\* A frame written with ws.send: the recipient and the JSON object.  partnerId
\* holds the id the object carries: partnerId of partner-found, clientId of
\* connected, NoId otherwise.
Frame(to, type, partnerId, body, timestamp) ==
    [to |-> to, type |-> type, partnerId |-> partnerId, body |-> body,
     timestamp |-> timestamp]

\* interface Client { id, ws, partnerId?, isWaiting }; ws is readyState[id].
Client(partnerId, isWaiting) == [partnerId |-> partnerId, isWaiting |-> isWaiting]

\* The part of the server a callback reads and writes.
PM(cl, q, out) == [clients |-> cl, waitingQueue |-> q, outbox |-> out]

\* ------------------------------------------------------------ sequence helpers
\* Array.prototype.includes
Includes(q, id) == \E i \in 1..Len(q) : q[i] = id

\* Array.prototype.indexOf (1-based; 0 when absent)
IndexOf(q, id) ==
    IF Includes(q, id) THEN CHOOSE i \in 1..Len(q) : q[i] = id /\ \A j \in 1..(i-1) : q[j] # id
    ELSE 0

\* Array.prototype.splice(index, 1)
Splice(q, i) == [j \in 1..(Len(q) - 1) |-> IF j < i THEN q[j] ELSE q[j + 1]]

\* ws.readyState === WebSocket.OPEN
IsOpen(id) == readyState[id] = "OPEN"

\* ------------------------------------------------------------- PeerManager
\* addClient that registers the client as already waiting
addClient_StartsWaiting(S, id) ==
    [S EXCEPT !.clients = [c \in DOMAIN S.clients \cup {id} |->
                              IF c = id THEN Client(NoId, TRUE) ELSE S.clients[c]]]

\* addClient(id, ws)
addClient(S, id) ==
    [S EXCEPT !.clients = [c \in DOMAIN S.clients \cup {id} |->
                              IF c = id THEN Client(NoId, FALSE) ELSE S.clients[c]]]

\* removeClient without the "remove from waiting queue" step
removeClient_KeepsQueueEntry(S, id) ==
    IF id \notin DOMAIN S.clients THEN S
    ELSE
      LET pid == S.clients[id].partnerId
          notify == pid # NoId /\ pid \in DOMAIN S.clients /\ IsOpen(pid)
          out1 == IF notify
                  THEN Append(S.outbox, Frame(pid, "partner-disconnected", NoId, None, None))
                  ELSE S.outbox
          cl1 == IF notify
                 THEN [S.clients EXCEPT ![pid] = Client(NoId, FALSE)]
                 ELSE S.clients
      IN PM([c \in DOMAIN cl1 \ {id} |-> cl1[c]], S.waitingQueue, out1)

\* removeClient that splices at indexOf(id) without testing the index or the
\* client: splice(-1, 1) drops the last queue entry
removeClient_SpliceUnchecked(S, id) ==
    LET known == id \in DOMAIN S.clients
        pid == IF known THEN S.clients[id].partnerId ELSE NoId
        notify == pid # NoId /\ pid \in DOMAIN S.clients /\ IsOpen(pid)
        out1 == IF notify
                THEN Append(S.outbox, Frame(pid, "partner-disconnected", NoId, None, None))
                ELSE S.outbox
        cl1 == IF notify
               THEN [S.clients EXCEPT ![pid] = Client(NoId, FALSE)]
               ELSE S.clients
        waitingIndex == IndexOf(S.waitingQueue, id)
        q1 == IF waitingIndex > 0 THEN Splice(S.waitingQueue, waitingIndex)
              ELSE IF Len(S.waitingQueue) > 0
                   THEN SubSeq(S.waitingQueue, 1, Len(S.waitingQueue) - 1)
                   ELSE S.waitingQueue
    IN PM([c \in DOMAIN cl1 \ {id} |-> cl1[c]], q1, out1)

\* removeClient(id)
removeClient(S, id) ==
    IF id \notin DOMAIN S.clients THEN S
    ELSE
      LET client == S.clients[id]
          pid == client.partnerId
          notify == pid # NoId /\ pid \in DOMAIN S.clients /\ IsOpen(pid)
          out1 == IF notify
                  THEN Append(S.outbox, Frame(pid, "partner-disconnected", NoId, None, None))
                  ELSE S.outbox
          cl1 == IF notify
                 THEN [S.clients EXCEPT ![pid] = Client(NoId, FALSE)]
                 ELSE S.clients
          waitingIndex == IndexOf(S.waitingQueue, id)
          q1 == IF waitingIndex > 0 THEN Splice(S.waitingQueue, waitingIndex)
                ELSE S.waitingQueue
          cl2 == [c \in DOMAIN cl1 \ {id} |-> cl1[c]]
      IN PM(cl2, q1, out1)

\* The enqueue test without the waitingQueue.includes check
ShouldEnqueue_IsWaitingOnly(S, clientId) == ~S.clients[clientId].isWaiting

\* The enqueue test of findPartner: "add to waiting queue if not already waiting"
ShouldEnqueue(S, clientId) ==
    ~S.clients[clientId].isWaiting /\ ~Includes(S.waitingQueue, clientId)

\* The filter predicate without the readyState check
IsAvailable_AnyChannel(cl, clientId, id) == id # clientId /\ id \in DOMAIN cl

\* The filter predicate that also asks for the entry's isWaiting flag
IsAvailable_WaitingOnly(cl, clientId, id) ==
    id # clientId /\ id \in DOMAIN cl /\ IsOpen(id) /\ cl[id].isWaiting

\* The filter predicate without the exclusion of the requester
IsAvailable_IncludesSelf(cl, clientId, id) == id \in DOMAIN cl /\ IsOpen(id)

\* The filter predicate building availableClients
IsAvailable(cl, clientId, id) ==
    id # clientId /\ id \in DOMAIN cl /\ IsOpen(id)

\* findPartner that puts a new waiter at the head of the queue
findPartner_EnqueuesAtHead(S, clientId) ==
    IF clientId \notin DOMAIN S.clients THEN [state |-> S, ret |-> NoId]
    ELSE
      LET enq == ShouldEnqueue(S, clientId)
          q1  == IF enq THEN <<clientId>> \o S.waitingQueue ELSE S.waitingQueue
          cl1 == IF enq THEN [S.clients EXCEPT ![clientId].isWaiting = TRUE]
                 ELSE S.clients
          Avail(id) == IsAvailable(cl1, clientId, id)
          availableClients == SelectSeq(q1, Avail)
      IN IF Len(availableClients) > 0
         THEN LET partnerId == availableClients[1]
                  Keep(id) == id # clientId /\ id # partnerId
                  q2  == SelectSeq(q1, Keep)
                  cl2 == [cl1 EXCEPT ![clientId] = Client(partnerId, FALSE),
                                     ![partnerId] = Client(clientId, FALSE)]
              IN [state |-> PM(cl2, q2, S.outbox), ret |-> partnerId]
         ELSE [state |-> PM(cl1, q1, S.outbox), ret |-> NoId]

\* findPartner that looks at the head of the queue only
findPartner_HeadOnly(S, clientId) ==
    IF clientId \notin DOMAIN S.clients THEN [state |-> S, ret |-> NoId]
    ELSE
      LET enq == ShouldEnqueue(S, clientId)
          q1  == IF enq THEN Append(S.waitingQueue, clientId) ELSE S.waitingQueue
          cl1 == IF enq THEN [S.clients EXCEPT ![clientId].isWaiting = TRUE]
                 ELSE S.clients
          Avail(id) == IsAvailable(cl1, clientId, id)
          availableClients == SelectSeq(SubSeq(q1, 1, 1), Avail)
      IN IF Len(availableClients) > 0
         THEN LET partnerId == availableClients[1]
                  Keep(id) == id # clientId /\ id # partnerId
                  q2  == SelectSeq(q1, Keep)
                  cl2 == [cl1 EXCEPT ![clientId] = Client(partnerId, FALSE),
                                     ![partnerId] = Client(clientId, FALSE)]
              IN [state |-> PM(cl2, q2, S.outbox), ret |-> partnerId]
         ELSE [state |-> PM(cl1, q1, S.outbox), ret |-> NoId]

\* findPartner whose scan drops the entries it finds unreachable
findPartner_EvictsStale(S, clientId) ==
    IF clientId \notin DOMAIN S.clients THEN [state |-> S, ret |-> NoId]
    ELSE
      LET enq == ShouldEnqueue(S, clientId)
          q0  == IF enq THEN Append(S.waitingQueue, clientId) ELSE S.waitingQueue
          cl1 == IF enq THEN [S.clients EXCEPT ![clientId].isWaiting = TRUE]
                 ELSE S.clients
          Avail(id) == IsAvailable(cl1, clientId, id)
          Live(id) == id = clientId \/ Avail(id)
          q1  == SelectSeq(q0, Live)
          availableClients == SelectSeq(q1, Avail)
      IN IF Len(availableClients) > 0
         THEN LET partnerId == availableClients[1]
                  Keep(id) == id # clientId /\ id # partnerId
                  q2  == SelectSeq(q1, Keep)
                  cl2 == [cl1 EXCEPT ![clientId] = Client(partnerId, FALSE),
                                     ![partnerId] = Client(clientId, FALSE)]
              IN [state |-> PM(cl2, q2, S.outbox), ret |-> partnerId]
         ELSE [state |-> PM(cl1, q1, S.outbox), ret |-> NoId]

\* findPartner(clientId): the new state and the returned partner id (NoId for null)
findPartner(S, clientId) ==
    IF clientId \notin DOMAIN S.clients THEN [state |-> S, ret |-> NoId]
    ELSE
      LET enq == ShouldEnqueue(S, clientId)
          q1  == IF enq THEN Append(S.waitingQueue, clientId) ELSE S.waitingQueue
          cl1 == IF enq THEN [S.clients EXCEPT ![clientId].isWaiting = TRUE]
                 ELSE S.clients
          Avail(id) == IsAvailable(cl1, clientId, id)
          availableClients == SelectSeq(q1, Avail)
      IN IF Len(availableClients) > 0
         THEN LET partnerId == availableClients[1]
                  Keep(id) == id # clientId /\ id # partnerId
                  q2  == SelectSeq(q1, Keep)
                  cl2 == [cl1 EXCEPT ![clientId] = Client(partnerId, FALSE),
                                     ![partnerId] = Client(clientId, FALSE)]
              IN [state |-> PM(cl2, q2, S.outbox), ret |-> partnerId]
         ELSE [state |-> PM(cl1, q1, S.outbox), ret |-> NoId]

\* getPartner that falls back to a client whose partnerId names clientId
getPartner_ReverseLookup(S, clientId) ==
    IF clientId \in DOMAIN S.clients /\ S.clients[clientId].partnerId # NoId
       /\ S.clients[clientId].partnerId \in DOMAIN S.clients
    THEN S.clients[clientId].partnerId
    ELSE LET back == {c \in DOMAIN S.clients : S.clients[c].partnerId = clientId}
         IN IF back # {} THEN CHOOSE c \in back : TRUE ELSE NoId

\* getPartner(clientId): the partner's id, NoId for undefined
getPartner(S, clientId) ==
    IF clientId \in DOMAIN S.clients /\ S.clients[clientId].partnerId # NoId
       /\ S.clients[clientId].partnerId \in DOMAIN S.clients
    THEN S.clients[clientId].partnerId
    ELSE NoId

\* disconnectPartners with "reset client state" outside the partnerId test
disconnectPartners_AlwaysResets(S, clientId) ==
    IF clientId \notin DOMAIN S.clients THEN S
    ELSE LET pid == S.clients[clientId].partnerId
             has == pid # NoId /\ pid \in DOMAIN S.clients
             out1 == IF has /\ IsOpen(pid)
                     THEN Append(S.outbox, Frame(pid, "partner-disconnected", NoId, None, None))
                     ELSE S.outbox
             cl1 == IF has THEN [S.clients EXCEPT ![pid] = Client(NoId, FALSE)]
                    ELSE S.clients
         IN PM([cl1 EXCEPT ![clientId] = Client(NoId, FALSE)], S.waitingQueue, out1)

\* disconnectPartners(clientId)
disconnectPartners(S, clientId) ==
    IF clientId \in DOMAIN S.clients /\ S.clients[clientId].partnerId # NoId
    THEN LET pid == S.clients[clientId].partnerId
             has == pid \in DOMAIN S.clients
             out1 == IF has /\ IsOpen(pid)
                     THEN Append(S.outbox, Frame(pid, "partner-disconnected", NoId, None, None))
                     ELSE S.outbox
             cl1 == IF has THEN [S.clients EXCEPT ![pid] = Client(NoId, FALSE)]
                    ELSE S.clients
             cl2 == [cl1 EXCEPT ![clientId] = Client(NoId, FALSE)]
         IN PM(cl2, S.waitingQueue, out1)
    ELSE S

\* --------------------------------------------------------- SignalingService
\* handleMessage, lines 8-11: "ensure client is registered"
\* handleMessage preamble that calls addClient whether or not the id is known
ensureRegistered_AlwaysAdds(S, clientId) ==
    addClient(S, clientId)

ensureRegistered(S, clientId) ==
    IF clientId \notin DOMAIN S.clients THEN addClient(S, clientId) ELSE S

\* handleFindPartner that tells only the requester of a match
handleFindPartner_RequesterOnly(S, clientId) ==
    LET r == findPartner(S, clientId)
        T == r.state
    IN IF r.ret # NoId
       THEN [T EXCEPT !.outbox =
                Append(S.outbox, Frame(clientId, "partner-found", r.ret, None, None))]
       ELSE [T EXCEPT !.outbox =
                Append(S.outbox, Frame(clientId, "waiting-for-partner", NoId, None, None))]

\* handleFindPartner that names the requester in both partner-found frames
handleFindPartner_NamesRequester(S, clientId) ==
    LET r == findPartner(S, clientId)
        T == r.state
    IN IF r.ret # NoId
       THEN IF r.ret \in DOMAIN T.clients /\ IsOpen(r.ret)
            THEN [T EXCEPT !.outbox =
                     S.outbox \o <<Frame(clientId, "partner-found", clientId, None, None),
                                   Frame(r.ret, "partner-found", clientId, None, None)>>]
            ELSE T
       ELSE [T EXCEPT !.outbox =
                Append(S.outbox, Frame(clientId, "waiting-for-partner", NoId, None, None))]

\* handleFindPartner(clientId, ws)
handleFindPartner(S, clientId) ==
    LET r == findPartner(S, clientId)
        T == r.state
    IN IF r.ret # NoId
       THEN IF r.ret \in DOMAIN T.clients /\ IsOpen(r.ret)
            THEN [T EXCEPT !.outbox =
                     S.outbox \o <<Frame(clientId, "partner-found", r.ret, None, None),
                                   Frame(r.ret, "partner-found", clientId, None, None)>>]
            ELSE T
       ELSE [T EXCEPT !.outbox =
                Append(S.outbox, Frame(clientId, "waiting-for-partner", NoId, None, None))]

\* forwardToPartner that writes to the partner's socket whatever its state
forwardToPartner_IgnoresReadyState(S, clientId, type, body, ts) ==
    LET partner == getPartner(S, clientId)
    IN IF partner # NoId
       THEN [S EXCEPT !.outbox = Append(S.outbox, Frame(partner, type, NoId, body, ts))]
       ELSE S

\* forwardToPartner that also sends the message back to its sender
forwardToPartner_EchoesSender(S, clientId, type, body, ts) ==
    LET partner == getPartner(S, clientId)
    IN IF partner # NoId /\ IsOpen(partner)
       THEN [S EXCEPT !.outbox = S.outbox \o <<Frame(partner, type, NoId, body, ts),
                                                Frame(clientId, type, NoId, body, ts)>>]
       ELSE S

\* forwardToPartner(clientId, message)
forwardToPartner(S, clientId, type, body, ts) ==
    LET partner == getPartner(S, clientId)
    IN IF partner # NoId /\ IsOpen(partner)
       THEN [S EXCEPT !.outbox = Append(S.outbox, Frame(partner, type, NoId, body, ts))]
       ELSE S

\* forwardChatMessage(clientId, messageText); now is new Date()
forwardChatMessage(S, clientId, messageText, now) ==
    LET partner == getPartner(S, clientId)
    IN IF partner # NoId /\ IsOpen(partner)
       THEN [S EXCEPT !.outbox =
                Append(S.outbox, Frame(partner, "chat-message", NoId, messageText, now))]
       ELSE S

\* handleEndChat that also takes the sender out of the waiting queue
handleEndChat_Dequeues(S, clientId) ==
    LET T == disconnectPartners(S, clientId)
        Other(id) == id # clientId
    IN [T EXCEPT !.waitingQueue = SelectSeq(T.waitingQueue, Other)]

\* handleEndChat(clientId)
handleEndChat(S, clientId) == disconnectPartners(S, clientId)

\* -------------------------------------------------------- ChildSafetyMonitor
\* The texts of ChatTexts that one of suspiciousPatterns matches
SuspiciousTexts == {"meet up"}

\* escalateThreatLevel(current, new_level)
escalateThreatLevel(current, new_level) ==
    LET levels == <<"none", "low", "medium", "high", "critical">>
        Index(l) == CHOOSE i \in 1..Len(levels) : levels[i] = l
    IN IF Index(current) >= Index(new_level) THEN current ELSE new_level

\* analyzeMessage(message, userId).action; rapid: the user's previous message
\* was less than a second ago; reported: userId is in reportedUsers
analyzeMessage(message, rapid, reported) ==
    LET t1 == IF message \in SuspiciousTexts
              THEN escalateThreatLevel("none", "medium") ELSE "none"
        threatLevel == IF rapid THEN escalateThreatLevel(t1, "low") ELSE t1
        action == CASE threatLevel = "low" -> "warn"
                    [] threatLevel = "medium" -> "block"
                    [] threatLevel \in {"high", "critical"} -> "disconnect"
                    [] OTHER -> "allow"
    IN IF reported \/ action = "disconnect" THEN "disconnect" ELSE action

\* The threat level analyzeMessage has computed when it reaches its switch
threatLevelOf(message, rapid) ==
    LET t1 == IF message \in SuspiciousTexts
              THEN escalateThreatLevel("none", "medium") ELSE "none"
    IN IF rapid THEN escalateThreatLevel(t1, "low") ELSE t1

\* analyzeMessage(message, userId).isAllowed
analyzeMessageIsAllowed(message, rapid, reported) ==
    LET threatLevel == threatLevelOf(message, rapid)
        isAllowed == threatLevel \notin {"medium", "high", "critical"}
    IN IF reported \/ threatLevel \in {"high", "critical"} THEN FALSE ELSE isAllowed

\* isUserBlocked(userId)
isUserBlocked(userId) == userId \in reportedUsers

\* getConnectionWarnings(userId)
getConnectionWarnings(userId) ==
    IF userId \in DOMAIN activeConnections
    THEN activeConnections[userId].warnings ELSE 0

\* ------------------------------------------------------------------ actions
Cur == PM(clients, waitingQueue, <<>>)

Commit(S) ==
    /\ clients' = S.clients
    /\ waitingQueue' = S.waitingQueue
    /\ outbox' = S.outbox

\* A call of a ChildSafetyMonitor method for userId; action and isAllowed are
\* the fields of the object analyzeMessage returns (None and TRUE otherwise)
MonitorCall(op, userId, action, isAllowed) ==
    [op |-> op, userId |-> userId, action |-> action, isAllowed |-> isAllowed]

\* queue: the waiting queue as the callback found it
Last(op, id) == [op |-> op, id |-> id, queue |-> waitingQueue]

Init ==
    /\ readyState = [i \in Ids |-> "UNCONNECTED"]
    /\ assignedId = [i \in Ids |-> NoId]
    /\ clients = << >>
    /\ waitingQueue = << >>
    /\ outbox = << >>
    /\ last = Last("init", NoId)
    /\ reportedUsers = {}
    /\ activeConnections = << >>
    /\ reportCalls = {}
    /\ monitorLast = MonitorCall("init", NoId, None, TRUE)

\* wss.on('connection') when Math.random().toString(36).substring(7) gives v:
\* the id is kept in the callback's closure and the confirmation is sent
ConnectAs(c, v) ==
    /\ readyState[c] = "UNCONNECTED"
    /\ readyState' = [readyState EXCEPT ![c] = "OPEN"]
    /\ assignedId' = [assignedId EXCEPT ![c] = v]
    /\ outbox' = <<Frame(c, "connected", v, None, None)>>
    /\ last' = Last("connection", v)
    /\ UNCHANGED <<clients, waitingQueue>>
    /\ UNCHANGED monitorVars

\* a connection callback that registers the client at once
Connect_Registers(id) ==
    /\ readyState[id] = "UNCONNECTED"
    /\ readyState' = [readyState EXCEPT ![id] = "OPEN"]
    /\ assignedId' = [assignedId EXCEPT ![id] = id]
    /\ clients' = addClient(Cur, id).clients
    /\ outbox' = <<Frame(id, "connected", id, None, None)>>
    /\ last' = Last("connection", id)
    /\ UNCHANGED waitingQueue
    /\ UNCHANGED monitorVars

\* a connection callback that sends no confirmation
Connect_Silent(id) ==
    /\ readyState[id] = "UNCONNECTED"
    /\ readyState' = [readyState EXCEPT ![id] = "OPEN"]
    /\ assignedId' = [assignedId EXCEPT ![id] = id]
    /\ outbox' = << >>
    /\ last' = Last("connection", id)
    /\ UNCHANGED <<clients, waitingQueue>>
    /\ UNCHANGED monitorVars

\* A connection whose id differs from the id of every other connection
Connect(id) == ConnectAs(id, id)

\* A connection whose id is any value the generator can return
ConnectAny(c) == \E v \in Ids : ConnectAs(c, v)

\* The socket stops being OPEN (peer closed, network failure); the server has
\* not yet run the 'close' callback.
ChannelDrop(id) ==
    /\ readyState[id] = "OPEN"
    /\ readyState' = [readyState EXCEPT ![id] = "CLOSING"]
    /\ outbox' = << >>
    /\ last' = Last("drop", assignedId[id])
    /\ UNCHANGED <<assignedId, clients, waitingQueue>>
    /\ UNCHANGED monitorVars

\* ws.on('close')
OnClose(id) ==
    /\ readyState[id] = "CLOSING"
    /\ readyState' = [readyState EXCEPT ![id] = "CLOSED"]
    /\ Commit(removeClient(Cur, assignedId[id]))
    /\ last' = Last("close", assignedId[id])
    /\ UNCHANGED assignedId
    /\ UNCHANGED monitorVars

\* ws.on('message') with { type: 'find-partner' }
FindPartnerMsg(id) ==
    /\ IsOpen(id)
    /\ Commit(handleFindPartner(ensureRegistered(Cur, assignedId[id]), assignedId[id]))
    /\ last' = Last("find-partner", assignedId[id])
    /\ UNCHANGED <<readyState, assignedId>>
    /\ UNCHANGED monitorVars

\* ws.on('message') with an offer, answer or ice-candidate
Relay(id, type, body, ts) ==
    /\ IsOpen(id)
    /\ Commit(forwardToPartner(ensureRegistered(Cur, assignedId[id]), assignedId[id], type, body, ts))
    /\ last' = Last("relay", assignedId[id])
    /\ UNCHANGED <<readyState, assignedId>>
    /\ UNCHANGED monitorVars

RelayMsg(id) ==
    \E type \in RelayTypes, body \in Payloads : Relay(id, type, body, None)

\* chat-message handling that passes a timestamp of the sender through
Chat_TrustsSenderTime(id, text, ts, now) ==
    /\ IsOpen(id)
    /\ Commit(forwardChatMessage(ensureRegistered(Cur, assignedId[id]), assignedId[id], text,
                                 IF ts # None THEN ts ELSE now))
    /\ last' = Last("chat-message", assignedId[id])
    /\ UNCHANGED <<readyState, assignedId>>
    /\ UNCHANGED monitorVars

\* ws.on('message') with { type: 'chat-message', message }
\* ts is a timestamp field of the inbound object, which the handler never reads
Chat(id, text, ts, now) ==
    /\ IsOpen(id)
    /\ Commit(forwardChatMessage(ensureRegistered(Cur, assignedId[id]), assignedId[id], text, now))
    /\ last' = Last("chat-message", assignedId[id])
    /\ UNCHANGED <<readyState, assignedId>>
    /\ UNCHANGED monitorVars

ChatMsg(id) ==
    \E text \in ChatTexts, ts \in SenderTimes, now \in ServerTimes : Chat(id, text, ts, now)

\* ws.on('message') with { type: 'end-chat' }
EndChatMsg(id) ==
    /\ IsOpen(id)
    /\ Commit(handleEndChat(ensureRegistered(Cur, assignedId[id]), assignedId[id]))
    /\ last' = Last("end-chat", assignedId[id])
    /\ UNCHANGED <<readyState, assignedId>>
    /\ UNCHANGED monitorVars

\* unknown-type handling that answers the sender with an error frame
UnknownMsg_RepliesError(id) ==
    /\ IsOpen(id)
    /\ clients' = ensureRegistered(Cur, assignedId[id]).clients
    /\ waitingQueue' = waitingQueue
    /\ outbox' = <<Frame(id, "error", NoId, None, None)>>
    /\ last' = Last("unknown", assignedId[id])
    /\ UNCHANGED <<readyState, assignedId>>
    /\ UNCHANGED monitorVars

\* ws.on('message') with any other type: the default branch only logs
UnknownMsg(id) ==
    /\ IsOpen(id)
    /\ Commit(ensureRegistered(Cur, assignedId[id]))
    /\ last' = Last("unknown", assignedId[id])
    /\ UNCHANGED <<readyState, assignedId>>
    /\ UNCHANGED monitorVars

\* a catch block that gives up on the client after a frame it cannot parse
MalformedFrame_DropsClient(id) ==
    /\ IsOpen(id)
    /\ Commit(removeClient(Cur, assignedId[id]))
    /\ last' = Last("malformed", assignedId[id])
    /\ UNCHANGED <<readyState, assignedId>>
    /\ UNCHANGED monitorVars

\* ws.on('message') with a frame JSON.parse rejects: the catch block only logs
MalformedFrame(id) ==
    /\ IsOpen(id)
    /\ outbox' = << >>
    /\ last' = Last("malformed", assignedId[id])
    /\ UNCHANGED <<readyState, assignedId, clients, waitingQueue>>
    /\ UNCHANGED monitorVars

Next ==
    \E id \in Ids :
        \/ Connect(id)
        \/ ChannelDrop(id)
        \/ OnClose(id)
        \/ FindPartnerMsg(id)
        \/ RelayMsg(id)
        \/ ChatMsg(id)
        \/ EndChatMsg(id)
        \/ UnknownMsg(id)
        \/ MalformedFrame(id)

Spec == Init /\ [][Next]_vars

\* Id generation alone: every connection draws any value of the generator's
\* range, registers with its first message and unregisters at close.  No
\* pairing takes place.
NextIds ==
    \E c \in Ids :
        \/ ConnectAny(c)
        \/ ChannelDrop(c)
        \/ OnClose(c)
        \/ UnknownMsg(c)

SpecIds == Init /\ [][NextIds]_vars

\* Only the PeerManager calls register / matchRequest / unregister:
\* a first message of unknown type registers, find-partner matches, close unregisters.
NextMatch ==
    \E id \in Ids :
        \/ Connect(id)
        \/ ChannelDrop(id)
        \/ OnClose(id)
        \/ FindPartnerMsg(id)
        \/ UnknownMsg(id)

SpecMatch == Init /\ [][NextMatch]_vars

\* analyzeMessage(message, userId).  rapid: Date.now() is less than 1000 ms
\* after the timestamp of the user's activeConnections entry; the entry's
\* timestamp is kept only through this input.
AnalyzeMessage(userId, message, rapid) ==
    /\ rapid => /\ userId \in DOMAIN activeConnections
                /\ activeConnections[userId].warnings < MaxWarnings
    /\ activeConnections' =
           IF userId \in DOMAIN activeConnections
           THEN [activeConnections EXCEPT
                    ![userId].warnings = IF rapid THEN @ + 1 ELSE @]
           ELSE [u \in DOMAIN activeConnections \cup {userId} |->
                    IF u = userId THEN [warnings |-> 0] ELSE activeConnections[u]]
    /\ reportedUsers' =
           IF threatLevelOf(message, rapid) \in {"high", "critical"}
           THEN reportedUsers \cup {userId} ELSE reportedUsers
    /\ monitorLast' =
           MonitorCall("analyzeMessage", userId,
                       analyzeMessage(message, rapid, userId \in reportedUsers'),
                       analyzeMessageIsAllowed(message, rapid, userId \in reportedUsers'))
    /\ UNCHANGED reportCalls
    /\ UNCHANGED serverVars

AnalyzeMessageCall(userId) ==
    \E message \in ChatTexts, rapid \in BOOLEAN : AnalyzeMessage(userId, message, rapid)

\* reportUser(userId, reason)
ReportUser(userId) ==
    /\ reportedUsers' = reportedUsers \cup {userId}
    /\ reportCalls' = reportCalls \cup {userId}
    /\ monitorLast' = MonitorCall("reportUser", userId, None, TRUE)
    /\ UNCHANGED activeConnections
    /\ UNCHANGED serverVars

\* disconnectUser that also takes the user off the reported set
DisconnectUser_ClearsReport(userId) ==
    /\ activeConnections' =
           [u \in DOMAIN activeConnections \ {userId} |-> activeConnections[u]]
    /\ reportedUsers' = reportedUsers \ {userId}
    /\ monitorLast' = MonitorCall("disconnectUser", userId, None, TRUE)
    /\ UNCHANGED reportCalls
    /\ UNCHANGED serverVars

\* disconnectUser(userId)
DisconnectUser(userId) ==
    /\ activeConnections' =
           [u \in DOMAIN activeConnections \ {userId} |-> activeConnections[u]]
    /\ monitorLast' = MonitorCall("disconnectUser", userId, None, TRUE)
    /\ UNCHANGED <<reportedUsers, reportCalls>>
    /\ UNCHANGED serverVars

\* The public methods of a ChildSafetyMonitor, called in any order for any
\* user.  No SignalingService or PeerManager callback calls them.
NextMonitor ==
    \E userId \in Ids :
        \/ AnalyzeMessageCall(userId)
        \/ ReportUser(userId)
        \/ DisconnectUser(userId)

SpecMonitor == Init /\ [][NextMonitor]_vars

\* The callbacks that put clients into the queue, pair them and end their
\* pairings: connection, find-partner, end-chat and close
NextQueue ==
    \E id \in Ids :
        \/ Connect(id)
        \/ ChannelDrop(id)
        \/ OnClose(id)
        \/ FindPartnerMsg(id)
        \/ EndChatMsg(id)

SpecQueue == Init /\ [][NextQueue]_vars

\* The callbacks of a session: connecting, matching, relaying and closing
NextSession ==
    \E id \in Ids :
        \/ Connect(id)
        \/ ChannelDrop(id)
        \/ OnClose(id)
        \/ FindPartnerMsg(id)
        \/ RelayMsg(id)
        \/ ChatMsg(id)

SpecSession == Init /\ [][NextSession]_vars

\* A session with offer/answer/ice-candidate traffic only
NextRelay ==
    \E id \in Ids :
        \/ Connect(id)
        \/ ChannelDrop(id)
        \/ OnClose(id)
        \/ FindPartnerMsg(id)
        \/ RelayMsg(id)

SpecRelay == Init /\ [][NextRelay]_vars

\* A session with chat-message traffic only
NextChat ==
    \E id \in Ids :
        \/ Connect(id)
        \/ ChannelDrop(id)
        \/ OnClose(id)
        \/ FindPartnerMsg(id)
        \/ ChatMsg(id)

SpecChat == Init /\ [][NextChat]_vars

\* The inbound frames that change the Registry or the queue, and the frames
\* the parser rejects
NextFrames ==
    \E id \in Ids :
        \/ Connect(id)
        \/ ChannelDrop(id)
        \/ OnClose(id)
        \/ FindPartnerMsg(id)
        \/ EndChatMsg(id)
        \/ UnknownMsg(id)
        \/ MalformedFrame(id)

SpecFrames == Init /\ [][NextFrames]_vars

\* The callbacks that can change the Registry or the queue.  A relay, a chat
\* message and a malformed frame change neither, apart from the registration
\* of the sender that UnknownMsg performs as well (RegistryUntouched below),
\* so the Registry/queue states reachable here are those reachable under Spec.
NextPairing ==
    \E id \in Ids :
        \/ Connect(id)
        \/ ChannelDrop(id)
        \/ OnClose(id)
        \/ FindPartnerMsg(id)
        \/ EndChatMsg(id)
        \/ UnknownMsg(id)

SpecPairing == Init /\ [][NextPairing]_vars

\* ------------------------------------------------------------ state views
Registered == DOMAIN clients
InQueue(id) == Includes(waitingQueue, id)
PartnerOf(id) == clients[id].partnerId

TypeOK ==
    /\ readyState \in [Ids -> ReadyStates]
    /\ assignedId \in [Ids -> Ids \cup {NoId}]
    /\ Registered \subseteq Ids
    /\ \A c \in Registered : clients[c].partnerId \in Ids \cup {NoId}
                             /\ clients[c].isWaiting \in BOOLEAN
    /\ \A i \in 1..Len(waitingQueue) : waitingQueue[i] \in Ids

\* The step just taken is the callback op of connection id.
Did(op, id) == last'.op = op /\ last'.id = id

\* Number of occurrences of id in q
Count(q, id) == Cardinality({i \in 1..Len(q) : q[i] = id})

\* Position of the earliest queue entry other than c whose client is registered
\* with an open channel (0 when there is none).
Eligible(q, c) ==
    {i \in 1..Len(q) : q[i] # c /\ q[i] \in Registered /\ IsOpen(q[i])}
FirstEligible(q, c) ==
    IF Eligible(q, c) = {} THEN 0
    ELSE CHOOSE i \in Eligible(q, c) : \A j \in Eligible(q, c) : i <= j

\* A relay, chat or malformed-frame step leaves the Registry and the queue as
\* an unknown-type message from the same sender would.
RegistryUntouched ==
    [][\A id \in Ids :
         (last'.id = id /\ last'.op \in {"relay", "chat-message", "malformed", "unknown"}) =>
             /\ waitingQueue' = waitingQueue
             /\ \A c \in Registered : c \in DOMAIN clients' /\ clients'[c] = clients[c]
             /\ DOMAIN clients' \subseteq Registered \cup {id}
             /\ (id \notin Registered /\ id \in DOMAIN clients')
                    => clients'[id] = Client(NoId, FALSE)]_vars

\* ---------------------------------------------------------------- claims

\* C1: pairing is symmetric in every reachable state: for registered A and B,
\* A.partnerId = B implies B.partnerId = A.
PairingSymmetric ==
    \A a \in Registered, b \in Registered :
        PartnerOf(a) = b => PartnerOf(b) = a

\* C2: pairing is exclusive: no id is the partnerId of two different
\* registered clients.
PairingExclusive ==
    \A a \in Registered, b \in Registered :
        (a # b /\ PartnerOf(a) # NoId) => PartnerOf(a) # PartnerOf(b)

\* C3: every registered client is waiting, paired or idle, the three being
\* told apart by partnerId, isWaiting and queue membership together.
IsWaitingState(c) == PartnerOf(c) = NoId /\ clients[c].isWaiting /\ InQueue(c)
IsPairedState(c)  == PartnerOf(c) # NoId /\ ~clients[c].isWaiting /\ ~InQueue(c)
IsIdleState(c)    == PartnerOf(c) = NoId /\ ~clients[c].isWaiting /\ ~InQueue(c)
ThreeStates ==
    \A c \in Registered : IsWaitingState(c) \/ IsPairedState(c) \/ IsIdleState(c)

\* C4: under register / matchRequest / unregister alone, the set of ids in the
\* queue equals the set of registered clients whose isWaiting is true.
QueueEqualsWaiting ==
    {waitingQueue[i] : i \in 1..Len(waitingQueue)}
        = {c \in Registered : clients[c].isWaiting}

\* C5: no client id appears more than once in the waiting queue.
NoDuplicateInQueue ==
    \A i \in 1..Len(waitingQueue), j \in 1..Len(waitingQueue) :
        waitingQueue[i] = waitingQueue[j] => i = j

\* C5 witness: a find-partner was handled for a client that was already in the
\* queue with isWaiting false (so only the includes test kept it from a second
\* insertion), and it is still there once.
RepeatedFindWhileQueued ==
    /\ last.op = "find-partner"
    /\ Includes(last.queue, last.id)
    /\ last.id \in Registered /\ ~clients[last.id].isWaiting
    /\ Count(waitingQueue, last.id) = 1

FindOutcomeMatched(x, y) ==
    /\ clients'[x].partnerId = y
    /\ clients'[y].partnerId = x
    /\ outbox' = <<Frame(x, "partner-found", y, None, None),
                   Frame(y, "partner-found", x, None, None)>>
    /\ ~Includes(waitingQueue', x)
    /\ ~Includes(waitingQueue', y)
    /\ ((\A i \in 1..Len(waitingQueue) : waitingQueue[i] \in {x, y})
            => waitingQueue' = << >>)
FindOutcomeWaiting(x) ==
    /\ Includes(waitingQueue', x)
    /\ outbox' = <<Frame(x, "waiting-for-partner", NoId, None, None)>>
FindPartnerOutcome ==
    [][\A x \in Ids :
         Did("find-partner", x) =>
             /\ x \in DOMAIN clients'
             /\ IF Eligible(waitingQueue, x) # {}
                THEN /\ \E i \in Eligible(waitingQueue, x) :
                            FindOutcomeMatched(x, waitingQueue[i])
                     /\ ~FindOutcomeWaiting(x)
                ELSE FindOutcomeWaiting(x)]_vars

\* C7 witness: scenario 2 -- X was waiting alone, Y's find-partner paired
\* them, both were sent partner-found and the queue is empty.
ScenarioTwoReached ==
    /\ last.op = "find-partner"
    /\ Len(last.queue) = 1
    /\ last.queue[1] # last.id
    /\ last.id \in Registered
    /\ PartnerOf(last.id) = last.queue[1]
    /\ Len(outbox) = 2
    /\ waitingQueue = << >>

\* C8: find-partner for a client that is already waiting or already paired
\* inserts nothing for it: a waiting client is not inserted again, a paired
\* client is not inserted and keeps its partnerId and isWaiting = false.
RedundantFindInsertsNothing ==
    [][\A x \in Ids :
         (Did("find-partner", x) /\ x \in Registered) =>
             /\ (clients[x].isWaiting /\ Includes(waitingQueue, x))
                    => Count(waitingQueue', x) <= 1
             /\ PartnerOf(x) # NoId
                    => /\ ~Includes(waitingQueue', x)
                       /\ clients'[x].partnerId = PartnerOf(x)
                       /\ ~clients'[x].isWaiting]_vars

\* C9: once the close of a connection has been handled, whatever state its
\* client was in, its id is neither in the Registry nor in the queue.
ClosedClientGone ==
    \A id \in Ids :
        readyState[id] = "CLOSED" => (id \notin Registered /\ ~InQueue(id))

\* C9 witness: the close just handled was that of a client that was waiting
\* in the queue.
WaitingClientClosed ==
    /\ last.op = "close"
    /\ Includes(last.queue, last.id)
    /\ readyState[last.id] = "CLOSED"

\* C10: when the close of X is handled and X's partnerId is a registered Y,
\* Y.partnerId is unset and Y.isWaiting is false afterwards, whether or not
\* Y's channel is open.
PartnerClearedOnClose ==
    [][\A x \in Ids :
         (Did("close", x) /\ x \in Registered /\ PartnerOf(x) # NoId
            /\ PartnerOf(x) \in Registered /\ PartnerOf(x) # x) =>
             /\ clients'[PartnerOf(x)].partnerId = NoId
             /\ ~clients'[PartnerOf(x)].isWaiting]_vars

\* C11: partnerId is valid or absent: every registered client with partnerId
\* set names a client that is in the Registry.
PartnerIdValid ==
    \A c \in Registered : PartnerOf(c) # NoId => PartnerOf(c) \in Registered

\* C12: unregister is idempotent: in every reachable state, removeClient for
\* an id that is not registered changes nothing and sends nothing, and a
\* second removeClient for the same id changes nothing and sends nothing
\* beyond what the first did.
RemoveIdempotent ==
    \A id \in Ids :
        LET once == removeClient(Cur, id)
        IN /\ removeClient(once, id) = once
           /\ id \notin Registered => once = Cur

\* C12 witness: a close was just handled while other clients are registered
\* and queued, and calling removeClient again for the closed id would leave
\* all of it as it is.
SecondRemoveIsNoOp ==
    /\ last.op = "close"
    /\ Includes(last.queue, last.id)
    /\ Registered # {}
    /\ waitingQueue # << >>
    /\ \E c \in Registered : PartnerOf(c) # NoId
    /\ removeClient(Cur, last.id) = Cur

\* Client c is registered and idle after the step.
IdleAfter(c) ==
    /\ c \in DOMAIN clients'
    /\ clients'[c] = Client(NoId, FALSE)
    /\ ~Includes(waitingQueue', c)

\* Every client registered before the step is unchanged by it, the queue is
\* unchanged, and nobody but x is added to the Registry.
PairingStateKept(x) ==
    /\ waitingQueue' = waitingQueue
    /\ \A c \in Registered : c \in DOMAIN clients' /\ clients'[c] = clients[c]
    /\ DOMAIN clients' \subseteq Registered \cup {x}

\* C13: when X sends end-chat while its partnerId is Y, afterwards X and Y are
\* both registered and idle (partnerId unset, isWaiting false, not in the
\* queue), and the only frame sent is one partner-disconnected to Y if Y's
\* channel is open.
EndChatLeavesBothIdle ==
    [][\A x \in Ids :
         (Did("end-chat", x) /\ x \in Registered /\ PartnerOf(x) # NoId) =>
             LET y == PartnerOf(x)
             IN /\ IdleAfter(x)
                /\ IdleAfter(y)
                /\ outbox' = IF IsOpen(y)
                             THEN <<Frame(y, "partner-disconnected", NoId, None, None)>>
                             ELSE << >>]_vars

\* C14: end-chat from a client that has no partner is a no-op: every client's
\* partnerId and isWaiting and the queue are unchanged and no frame is sent.
EndChatUnpairedNoOp ==
    [][\A x \in Ids :
         (Did("end-chat", x) /\ (x \notin Registered \/ PartnerOf(x) = NoId)) =>
             /\ PairingStateKept(x)
             /\ outbox' = << >>]_vars

\* C14 witness: end-chat was handled for a client that is waiting in the
\* queue; it is still waiting and nothing was sent.
EndChatWhileWaiting ==
    /\ last.op = "end-chat"
    /\ last.id \in Registered
    /\ PartnerOf(last.id) = NoId
    /\ clients[last.id].isWaiting
    /\ InQueue(last.id)
    /\ last.queue = waitingQueue
    /\ outbox = << >>

\* The message types that belong to a session
SessionTypes == RelayTypes \cup {"chat-message"}

\* The last callback handled an offer, answer, ice-candidate or chat-message
LastWasSessionMsg == last.op \in {"relay", "chat-message"}

\* C15: an offer, answer, ice-candidate or chat-message from a client that has
\* no partner produces no outbound frame, and is not kept for later: a frame of
\* one of these types is only ever sent by the callback that handles such a
\* message from a sender whose partnerId is the receiver.
UnpairedSenderSendsNothing ==
    /\ (LastWasSessionMsg /\ PartnerOf(last.id) = NoId) => outbox = << >>
    /\ \A i \in 1..Len(outbox) :
           outbox[i].type \in SessionTypes =>
               /\ LastWasSessionMsg
               /\ PartnerOf(last.id) = outbox[i].to

\* C15 witness: a session message was handled for a registered sender that is
\* waiting in the queue without a partner, and nothing was sent.
UnpairedSenderRelayed ==
    /\ LastWasSessionMsg
    /\ last.id \in Registered
    /\ PartnerOf(last.id) = NoId
    /\ InQueue(last.id)
    /\ \E c \in Registered : PartnerOf(c) # NoId
    /\ outbox = << >>

\* Client x is registered with a partnerId before the step.
Paired(x) == x \in Registered /\ PartnerOf(x) # NoId

\* The partner named by x's partnerId is registered and its channel is open.
PartnerReachable(x) == PartnerOf(x) \in Registered /\ IsOpen(PartnerOf(x))

\* No client's partnerId or isWaiting and no queue entry changes in the step.
PairingStateUnchanged == clients' = clients /\ waitingQueue' = waitingQueue

\* C16 as stated: an offer, answer or ice-candidate from a paired client X is
\* forwarded unchanged to X's partner and to nobody else, and changes neither
\* any client's partnerId/isWaiting nor the queue.
RelayAlwaysForwarded ==
    [][\A x \in Ids, type \in RelayTypes, body \in Payloads :
         (Did("relay", x) /\ Paired(x) /\ Relay(x, type, body, None)) =>
             /\ outbox' = <<Frame(PartnerOf(x), type, NoId, body, None)>>
             /\ PairingStateUnchanged]_vars

\* C16 amended: the message is forwarded unchanged to X's partner, and to
\* nobody else, when the partner is registered and its channel is open;
\* otherwise nothing is sent. In both cases no client's partnerId/isWaiting
\* and no queue entry changes.
RelayForwardedToOpenPartner ==
    [][\A x \in Ids, type \in RelayTypes, body \in Payloads :
         (Did("relay", x) /\ Paired(x) /\ Relay(x, type, body, None)) =>
             /\ outbox' = IF PartnerReachable(x)
                          THEN <<Frame(PartnerOf(x), type, NoId, body, None)>>
                          ELSE << >>
             /\ PairingStateUnchanged]_vars

\* C16 witness: an offer, answer or ice-candidate of a paired sender was
\* delivered to its partner, whose partnerId names the sender.
RelayDelivered ==
    /\ last.op = "relay"
    /\ Len(outbox) = 1
    /\ outbox[1].type \in RelayTypes
    /\ outbox[1].body \in Payloads
    /\ outbox[1].to = PartnerOf(last.id)
    /\ PartnerOf(outbox[1].to) = last.id

\* C17: session messages never cross sessions: whenever an offer, answer,
\* ice-candidate or chat-message sent by X is delivered to Y, X.partnerId = Y
\* and Y.partnerId = X at that moment.
NoCrossSessionDelivery ==
    \A i \in 1..Len(outbox) :
        outbox[i].type \in SessionTypes =>
            /\ LastWasSessionMsg
            /\ PartnerOf(last.id) = outbox[i].to
            /\ PartnerOf(outbox[i].to) = last.id

\* C18 as stated: a chat-message from a paired client X results in exactly one
\* outbound chat-message, to X's partner only, carrying X's text and the
\* server's timestamp; nothing of the sender's other fields is passed through.
ChatAlwaysDelivered ==
    [][\A x \in Ids, text \in ChatTexts, ts \in SenderTimes, now \in ServerTimes :
         (Did("chat-message", x) /\ Paired(x) /\ Chat(x, text, ts, now)) =>
             outbox' = <<Frame(PartnerOf(x), "chat-message", NoId, text, now)>>]_vars

\* C18 amended: exactly one chat-message, to X's partner only, with X's text
\* and the server's timestamp, when the partner is registered and its channel
\* is open; otherwise no frame at all. X receives nothing in either case.
ChatDeliveredToOpenPartner ==
    [][\A x \in Ids, text \in ChatTexts, ts \in SenderTimes, now \in ServerTimes :
         (Did("chat-message", x) /\ Paired(x) /\ Chat(x, text, ts, now)) =>
             outbox' = IF PartnerReachable(x)
                       THEN <<Frame(PartnerOf(x), "chat-message", NoId, text, now)>>
                       ELSE << >>]_vars

\* C18 witness: a chat-message of a paired sender went out as one frame to its
\* partner, stamped by the server.
ChatDelivered ==
    /\ last.op = "chat-message"
    /\ Len(outbox) = 1
    /\ outbox[1].type = "chat-message"
    /\ outbox[1].to = PartnerOf(last.id)
    /\ outbox[1].to # last.id
    /\ outbox[1].body \in ChatTexts
    /\ outbox[1].timestamp \in ServerTimes

\* Clients x and y are registered and each is the other's partner.
MutualPair(x, y) ==
    /\ x \in Registered /\ y \in Registered /\ x # y
    /\ PartnerOf(x) = y /\ PartnerOf(y) = x

\* C19: if X and Y are paired and Y's channel closes, X is sent
\* partner-disconnected and X.partnerId becomes unset; a later find-partner
\* from X, then without a partner, either pairs X with a client Z that was
\* waiting with an open channel or leaves X in the queue, where a later
\* find-partner of another client can reach it.
PartnerRecoversAfterClose ==
    [][\A x \in Ids :
         /\ \A y \in Ids :
                (Did("close", y) /\ MutualPair(x, y)) =>
                    /\ outbox' = <<Frame(x, "partner-disconnected", NoId, None, None)>>
                    /\ clients'[x].partnerId = NoId
         /\ (Did("find-partner", x) /\ x \in Registered /\ PartnerOf(x) = NoId) =>
                \/ \E z \in Ids \ {x} :
                       /\ InQueue(z) /\ IsOpen(z)
                       /\ clients'[x].partnerId = z
                       /\ clients'[z].partnerId = x
                \/ /\ Includes(waitingQueue', x)
                   /\ clients'[x].partnerId = NoId]_vars

\* Queue entry e is stale for a scan on behalf of c: it is not c and its
\* client is gone or its channel is not open.
StaleFor(c, e) == e # c /\ ~(e \in Registered /\ IsOpen(e))

\* C20 as stated: the scan evicts stale entries: after findPartner returns,
\* every queue entry passed over because its client's channel was not open (or
\* its client no longer exists) has been removed from the queue.
StaleEntriesEvicted ==
    [][\A c \in Ids :
         Did("find-partner", c) =>
             \A i \in 1..Len(waitingQueue) :
                 StaleFor(c, waitingQueue[i]) =>
                     ~Includes(waitingQueue', waitingQueue[i])]_vars

\* C20 amended: the scan evicts nothing: the stale entries it passes over stay
\* in the queue in their order, and the only entries findPartner removes are
\* the requester and the partner it was matched with.
StaleEntriesStay ==
    [][\A c \in Ids :
         Did("find-partner", c) =>
             LET Stale(e) == StaleFor(c, e)
             IN /\ SelectSeq(waitingQueue', Stale) = SelectSeq(waitingQueue, Stale)
                /\ \A i \in 1..Len(waitingQueue) :
                       ~Includes(waitingQueue', waitingQueue[i]) =>
                           \/ waitingQueue[i] = c
                           \/ waitingQueue[i] = clients'[c].partnerId]_vars

\* C20 witness: a find-partner found nobody to pair with and left its sender
\* queued behind an entry whose channel is closing, which is still queued.
QueuedBehindStaleEntry ==
    /\ last.op = "find-partner"
    /\ last.id \in Registered
    /\ PartnerOf(last.id) = NoId
    /\ ~Includes(last.queue, last.id)
    /\ \E i \in 1..Len(waitingQueue), k \in 1..Len(waitingQueue) :
          /\ i < k
          /\ waitingQueue[k] = last.id
          /\ readyState[waitingQueue[i]] = "CLOSING"
          /\ Includes(last.queue, waitingQueue[i])

\* C21: findPartner never pairs the requester with itself or with a client
\* whose channel is not open: in every reachable state, whenever findPartner
\* for a sender c returns a partner id p, p differs from c, p is registered
\* and p's channel is open.
PartnerIsOpenOther ==
    \A c \in Ids :
        IsOpen(c) =>
            LET r == findPartner(ensureRegistered(Cur, c), c)
            IN r.ret # NoId =>
                   /\ r.ret # c
                   /\ r.ret \in Registered
                   /\ r.ret \in DOMAIN r.state.clients
                   /\ IsOpen(r.ret)

\* C21 witness: a find-partner returned a partner: another registered client
\* with an open channel that was in the queue, and both were told of the match.
FoundPartnerIsOpen ==
    /\ last.op = "find-partner"
    /\ last.id \in Registered
    /\ PartnerOf(last.id) # NoId
    /\ PartnerOf(last.id) # last.id
    /\ PartnerOf(last.id) \in Registered
    /\ IsOpen(PartnerOf(last.id))
    /\ Includes(last.queue, PartnerOf(last.id))
    /\ ~Includes(last.queue, last.id)
    /\ Len(outbox) = 2
    /\ outbox[1].partnerId = PartnerOf(last.id)

\* Client a is the only waiting client: it alone is in the queue, waiting,
\* without a partner, with an open channel.
OnlyWaiting(a) ==
    /\ waitingQueue = <<a>>
    /\ a \in Registered
    /\ IsOpen(a)
    /\ clients[a].isWaiting
    /\ PartnerOf(a) = NoId

\* The PeerManager state after find-partner from first and then from second,
\* each handled as one run-to-completion step.
AfterTwoFinds(first, second) ==
    LET S1 == handleFindPartner(ensureRegistered(Cur, first), first)
    IN handleFindPartner(ensureRegistered(S1, second), second)

\* C22: while A is the only waiting client, for both orders of find-partner
\* from two other clients B and C, at most one of them is paired with A and A
\* is never named as partner by both.
RaceForQueueHead ==
    \A a \in Ids, b \in Ids, c \in Ids :
        (a # b /\ a # c /\ b # c /\ OnlyWaiting(a) /\ IsOpen(b) /\ IsOpen(c)) =>
            LET T == AfterTwoFinds(b, c).clients
            IN /\ T[a].partnerId = b
               /\ T[b].partnerId = a
               /\ T[c].partnerId # a

\* C23: a message of an unrecognised type is discarded: no frame is sent to
\* anyone, and no client's partnerId/isWaiting and no queue entry changes (a
\* sender not yet registered is registered idle, as for every message).
UnknownTypeDiscarded ==
    [][\A x \in Ids :
         Did("unknown", x) =>
             /\ outbox' = << >>
             /\ PairingStateKept(x)
             /\ x \notin Registered => clients'[x] = Client(NoId, FALSE)]_vars

\* C23 witness: a message of unknown type was handled for a paired sender
\* while another client waits in the queue, and nothing was sent.
UnknownFromPairedSender ==
    /\ last.op = "unknown"
    /\ last.id \in Registered
    /\ PartnerOf(last.id) # NoId
    /\ waitingQueue # << >>
    /\ last.queue = waitingQueue
    /\ outbox = << >>

\* C24: an undecodable frame is dropped: nothing is sent to anyone, pairing
\* state and queue are unchanged, and the connection stays as it was, so that
\* a following find-partner or end-chat from the same client is handled
\* exactly as it would have been without the frame.
MalformedFrameDropped ==
    [][\A x \in Ids :
         Did("malformed", x) =>
             LET After == PM(clients', waitingQueue', << >>)
             IN /\ outbox' = << >>
                /\ PairingStateUnchanged
                /\ readyState' = readyState
                /\ handleFindPartner(ensureRegistered(After, x), x)
                       = handleFindPartner(ensureRegistered(Cur, x), x)
                /\ handleEndChat(ensureRegistered(After, x), x)
                       = handleEndChat(ensureRegistered(Cur, x), x)]_vars

\* C24 witness: an undecodable frame of a paired client was dropped; the
\* client is still registered, paired and open, and nothing was sent.
MalformedFromPairedSender ==
    /\ last.op = "malformed"
    /\ last.id \in Registered
    /\ IsOpen(last.id)
    /\ PartnerOf(last.id) # NoId
    /\ PartnerOf(last.id) \in Registered
    /\ outbox = << >>

\* C28: client ids are unique among open connections: with the id of each
\* new connection any value the generator may return, no two connections that
\* are open at the same time hold the same id, so no two connections share
\* one Registry entry.
IdsUniqueAmongOpen ==
    \A c \in Ids, d \in Ids :
        (c # d /\ IsOpen(c) /\ IsOpen(d)) => assignedId[c] # assignedId[d]

\* The positions of the frames the step sends to connection c.
SentTo(c) == {i \in 1..Len(outbox') : outbox'[i].to = c}

\* C25: each connection is sent connected{clientId} exactly once, carrying the
\* id the server uses for it, before any other frame: the step that opens the
\* connection sends exactly that frame; no other step sends a connected frame;
\* a connection is opened once and keeps its id; and any other frame goes to
\* a connection that was opened before.
ConnectedOnceAndFirst ==
    [][\A c \in Ids :
         /\ (readyState[c] = "UNCONNECTED" /\ readyState'[c] # "UNCONNECTED") =>
                /\ assignedId'[c] # NoId
                /\ outbox' = <<Frame(c, "connected", assignedId'[c], None, None)>>
                /\ last'.id = assignedId'[c]
         /\ (\E i \in SentTo(c) : outbox'[i].type = "connected") =>
                readyState[c] = "UNCONNECTED"
         /\ readyState[c] # "UNCONNECTED" =>
                /\ readyState'[c] # "UNCONNECTED"
                /\ assignedId'[c] = assignedId[c]
         /\ SentTo(c) # {} => readyState'[c] = "OPEN"]_vars

\* C25 witness: a client that was sent connected with its id on connecting is
\* now, several frames later, told that its partner has disconnected.
LaterFrameAfterConnected ==
    /\ last.op = "close"
    /\ Len(outbox) = 1
    /\ outbox[1].type = "partner-disconnected"
    /\ assignedId[outbox[1].to] = outbox[1].to
    /\ IsOpen(outbox[1].to)

\* The results of the handlers that neither match nor close, for an inbound
\* message of each kind from x.
QuietResults(x) ==
    LET S0 == ensureRegistered(Cur, x)
    IN {forwardToPartner(S0, x, type, body, None) :
            type \in RelayTypes, body \in Payloads}
       \cup {forwardChatMessage(S0, x, text, now) :
            text \in ChatTexts, now \in ServerTimes}
       \cup {handleEndChat(S0, x), S0}

\* C26: a waiting client leaves the queue only by being paired or by its own
\* disconnect.  In every reachable state: an offer, answer, ice-candidate,
\* chat-message, end-chat or message of unknown type from any open client
\* leaves the queue as it is; the close of a client takes only that client
\* out; a find-partner takes out only the requester and the client it is
\* paired with; and in the state itself, a client that was in the queue before
\* the last callback and is gone was closed or paired by it.
QueueExitOnlyByMatchOrClose ==
    /\ \A x \in Ids :
           IsOpen(x) =>
               /\ \A T \in QuietResults(x) : T.waitingQueue = waitingQueue
               /\ LET F == handleFindPartner(ensureRegistered(Cur, x), x)
                  IN \A i \in 1..Len(waitingQueue) :
                         LET c == waitingQueue[i]
                         IN ~Includes(F.waitingQueue, c) =>
                                /\ F.clients[x].partnerId # NoId
                                /\ c = x \/ c = F.clients[x].partnerId
    /\ \A y \in Ids :
           readyState[y] = "CLOSING" =>
               LET Other(id) == id # y
               IN SelectSeq(removeClient(Cur, y).waitingQueue, Other)
                      = SelectSeq(waitingQueue, Other)
    /\ \A i \in 1..Len(last.queue) :
           LET c == last.queue[i]
           IN ~InQueue(c) =>
                  \/ last.op = "close" /\ last.id = c
                  \/ /\ last.op = "find-partner"
                     /\ c \in Registered
                     /\ last.id \in Registered
                     /\ PartnerOf(c) # NoId
                     /\ \/ c = last.id
                        \/ PartnerOf(last.id) = c /\ PartnerOf(c) = last.id

\* C26 witness: the close of one client has just been handled while another
\* client is waiting in the queue, and that client is still in the queue.
StillQueuedAfterOthersClose ==
    /\ last.op = "close"
    /\ \E c \in Registered :
          /\ c # last.id
          /\ clients[c].isWaiting
          /\ Includes(last.queue, c)
          /\ InQueue(c)

\* The callbacks that handle a decoded inbound message.
MessageOps == {"find-partner", "relay", "chat-message", "end-chat", "unknown"}

RelayToClosingPartnerAbandoned ==
    [][/\ \A x \in Ids :
            (last'.op \in {"relay", "chat-message"} /\ last'.id = x /\ Paired(x)
               /\ PartnerOf(x) \in Registered /\ ~IsOpen(PartnerOf(x))) =>
                /\ outbox' = << >>
                /\ PairingStateUnchanged
       /\ last'.op \notin {"relay", "chat-message"} =>
            \A i \in 1..Len(outbox') : outbox'[i].type \notin SessionTypes]_vars

\* C29 witness: a session message of a paired sender was handled while its
\* partner, still registered, had a closing channel; nothing was sent.
RelayedToClosingPartner ==
    /\ LastWasSessionMsg
    /\ last.id \in Registered
    /\ PartnerOf(last.id) \in Registered
    /\ readyState[PartnerOf(last.id)] = "CLOSING"
    /\ PartnerOf(PartnerOf(last.id)) = last.id
    /\ outbox = << >>

\* C30: the moderation hook can veto chat delivery: when the safety monitor's
\* decision for a chat-message from X is block or disconnect, no chat-message
\* is delivered to anyone, and on disconnect X is removed from the Registry
\* and the queue.
ModerationVetoesChat ==
    [][\A x \in Ids, text \in ChatTexts, ts \in SenderTimes, now \in ServerTimes,
          rapid \in BOOLEAN, reported \in BOOLEAN :
         (Did("chat-message", x) /\ Chat(x, text, ts, now)) =>
             LET decision == analyzeMessage(text, rapid, reported)
             IN /\ decision \in {"block", "disconnect"} =>
                       \A i \in 1..Len(outbox') : outbox'[i].type # "chat-message"
                /\ decision = "disconnect" =>
                       /\ x \notin DOMAIN clients'
                       /\ ~Includes(waitingQueue', x)]_vars

\* Client x is, in PeerManager state S, paired with a registered client whose
\* channel is open.
PairedReachable(S, x) ==
    LET p == S.clients[x].partnerId
    IN p # NoId /\ p # x /\ p \in DOMAIN S.clients /\ IsOpen(p)

\* C31: find-partner is a universal recovery path: in every reachable state, a
\* find-partner from any client X with an open connection leaves X paired
\* with a reachable client or in the queue, and if X is in the queue, the
\* next find-partner from any other open client pairs that client with a
\* client that was waiting in the queue.
FindPartnerRecovers ==
    \A x \in Ids :
        IsOpen(x) =>
            LET F == handleFindPartner(ensureRegistered(Cur, x), x)
            IN /\ PairedReachable(F, x) \/ Includes(F.waitingQueue, x)
               /\ Includes(F.waitingQueue, x) =>
                      \A z \in Ids \ {x} :
                          IsOpen(z) =>
                              LET G == handleFindPartner(ensureRegistered(F, z), z)
                              IN /\ PairedReachable(G, z)
                                 /\ Includes(F.waitingQueue, G.clients[z].partnerId)
                                 /\ G.clients[G.clients[z].partnerId].partnerId = z

\* C31 witness: after an end-chat cleared its flags, a client that was still
\* in the queue sent find-partner again and is in the queue, unpaired, with a
\* third client open to match it.
RequeuedAfterSessionEnd ==
    /\ last.op = "find-partner"
    /\ last.id \in Registered
    /\ IsOpen(last.id)
    /\ Includes(last.queue, last.id)
    /\ InQueue(last.id)
    /\ ~clients[last.id].isWaiting
    /\ PartnerOf(last.id) = NoId
    /\ \E z \in Ids \ {last.id} : IsOpen(z)

\* The queue positions whose client is registered with an open channel.
MatchableEntries == {i \in 1..Len(waitingQueue) :
                        waitingQueue[i] \in Registered /\ IsOpen(waitingQueue[i])}

\* C32: no two matchable clients are left waiting: after every callback the
\* queue holds at most one id whose client is registered with an open
\* channel; every other entry is one whose channel is no longer open.
AtMostOneMatchableWaiting == Cardinality(MatchableEntries) <= 1

\* C32 witness: after a close was handled the queue holds one entry with an
\* open channel behind a stale entry whose channel is closing.
OneMatchableBehindStale ==
    /\ last.op = "close"
    /\ Len(waitingQueue) = 2
    /\ readyState[waitingQueue[1]] = "CLOSING"
    /\ MatchableEntries = {2}

\* C33: every dissolution of a pairing is notified: whenever a client X with
\* partnerId = Y stops having Y as its partner through a step that is not Y's
\* own (X closes, X sends end-chat, X is paired with another client by a
\* find-partner) while Y is registered with an open channel, that step sends
\* partner-disconnected to Y and clears Y.partnerId.
DissolutionNotified ==
    [][\A x \in Ids, y \in Ids :
         (/\ x \in Registered /\ y \in Registered /\ x # y
          /\ PartnerOf(x) = y
          /\ IsOpen(y)
          /\ last'.id # y
          /\ x \in DOMAIN clients' => clients'[x].partnerId # y) =>
             /\ \E i \in 1..Len(outbox') :
                    outbox'[i] = Frame(y, "partner-disconnected", NoId, None, None)
             /\ y \in DOMAIN clients'
             /\ clients'[y].partnerId = NoId]_vars

\* C34: in every reachable state no client's partnerId equals its own id, and
\* no partner-found message names its recipient as the partner.
NoSelfPairing ==
    /\ \A x \in Registered : PartnerOf(x) # x
    /\ \A i \in 1..Len(outbox) :
           outbox[i].type = "partner-found" => outbox[i].partnerId # outbox[i].to

\* C34 witness: a find-partner has just produced a match; the requester was
\* appended to the queue it was matched from, and both partner-found frames
\* are in flight.
MatchNamesOtherSide ==
    /\ last.op = "find-partner"
    /\ PartnerOf(last.id) \in Ids \ {last.id}
    /\ Includes(last.queue, PartnerOf(last.id))
    /\ outbox = <<Frame(last.id, "partner-found", PartnerOf(last.id), None, None),
                  Frame(PartnerOf(last.id), "partner-found", last.id, None, None)>>

\* C35: in every reachable state every registered client with isWaiting = true
\* has its id in the waiting queue.
WaitingImpliesQueued ==
    \A x \in Registered : clients[x].isWaiting => InQueue(x)

\* C35 witness: a match has just taken two ids out of the queue, both are
\* registered with isWaiting = false, and a third registered client is still
\* waiting behind them.
MatchedPastWaitingEntry ==
    /\ last.op = "find-partner"
    /\ PartnerOf(last.id) \in Registered \ {last.id}
    /\ Includes(last.queue, PartnerOf(last.id))
    /\ ~InQueue(PartnerOf(last.id)) /\ ~InQueue(last.id)
    /\ ~clients[PartnerOf(last.id)].isWaiting /\ ~clients[last.id].isWaiting
    /\ \E z \in Registered : clients[z].isWaiting

RegistrationKeepsEntry ==
    [][\A x \in Ids :
         (last'.op \in MessageOps /\ last'.id = x) =>
             /\ x \in DOMAIN clients'
             /\ readyState' = readyState
             /\ \A c \in Registered \ {x} : c \in DOMAIN clients'
             /\ (x \notin Registered /\ last'.op # "find-partner") =>
                    /\ clients'[x] = Client(NoId, FALSE)
                    /\ waitingQueue' = waitingQueue
             /\ (x \in Registered /\ last'.op = "unknown") =>
                    clients'[x] = clients[x]
             /\ (/\ x \in Registered /\ last'.op = "find-partner"
                 /\ clients[x].isWaiting /\ clients'[x].partnerId = NoId) =>
                    clients'[x].isWaiting
             /\ (/\ x \in Registered /\ last'.op = "end-chat"
                 /\ PartnerOf(x) \in Registered \ {x} /\ IsOpen(PartnerOf(x))) =>
                    \E i \in 1..Len(outbox') :
                        outbox'[i] = Frame(PartnerOf(x), "partner-disconnected",
                                           NoId, None, None)]_vars

\* C37 witness: a client that is waiting in the queue has sent a message of
\* unknown type and is still waiting in the queue.
UnknownFromWaitingSender ==
    /\ last.op = "unknown"
    /\ last.id \in Registered
    /\ clients[last.id].isWaiting
    /\ InQueue(last.id)
    /\ IsOpen(last.id)

\* C38: in ChildSafetyMonitor a reported user stays blocked: once reportUser(u)
\* has been called, isUserBlocked(u) is true in every later state and every
\* later analyzeMessage(m, u) returns action = disconnect with isAllowed =
\* false, whatever m is and whatever disconnectUser calls came in between; and
\* analyzeMessage never returns action = disconnect for a user that has never
\* been reported.
ReportedStaysBlocked ==
    /\ [](\A u \in reportCalls : isUserBlocked(u))
    /\ [][\A u \in Ids :
            (monitorLast'.op = "analyzeMessage" /\ monitorLast'.userId = u) =>
                /\ u \in reportCalls =>
                       /\ monitorLast'.action = "disconnect"
                       /\ ~monitorLast'.isAllowed
                       /\ u \in reportedUsers'
                /\ u \notin reportCalls => monitorLast'.action # "disconnect"]_vars

\* C38 witness: a user that was reported, and whose activeConnections entry
\* is a fresh one, has just had a message answered with disconnect, while
\* another user, never reported, has accumulated warnings.
ReportedUserRefused ==
    /\ monitorLast.op = "analyzeMessage"
    /\ monitorLast.userId \in reportCalls
    /\ monitorLast.action = "disconnect"
    /\ ~monitorLast.isAllowed
    /\ getConnectionWarnings(monitorLast.userId) = 0
    /\ \E v \in Ids \ reportCalls : getConnectionWarnings(v) = MaxWarnings

====
